---- MODULE Spec2Model ----
(***************************************************************************)
(* Model of the exercises of Self-Study-Gtest:                             *)
(*  - project_library.cpp: Book and Member records, the Library that owns  *)
(*    them, and the fake notification service that records what it sends;  *)
(*  - main.cpp and absolute_test.cpp: the free functions add and absolute; *)
(*  - double_fake.cpp: the ShoppingCart and its FakePaymentProcessor.      *)
(* The exercises share no state: each specification runs one of them and   *)
(* leaves the others as constructed.                                       *)
(***************************************************************************)
EXTENDS Integers, Sequences, FiniteSets, TLC

VARIABLES books, members, sentNotifications, lastCall, successCalls, replacements,
          notified, beforeBorrow,
          operands, result,
          total, shouldSucceed, payments, checkoutResult

\* the Library, its collaborators and the history kept about its calls
libraryVars == <<books, members, sentNotifications, lastCall, successCalls,
                 replacements, notified, beforeBorrow>>

\* a call of one of the free functions add / absolute
functionVars == <<operands, result>>

\* the ShoppingCart and its FakePaymentProcessor
cartVars == <<total, shouldSucceed, payments, checkoutResult>>

vars == <<libraryVars, functionVars, cartVars>>

(* ---------------------------- bounds ---------------------------------- *)

\* the notification log is followed up to this length
MaxNotifications == 3

\* the callers pass an id that is already in use at most this many times
MaxReplacements == 1

\* the ids the callers use (those of the test fixture)
BookIds == {"B001", "B002", "B003"}

MemberIds == {"M001", "M002"}

\* the (title, author) pairs the callers pass to addBook for each id; the
\* first id is also added under a second title
Editions ==
    [B001 |-> {<<"Clean Code", "Robert Martin">>, <<"New Book", "Author">>},
     B002 |-> {<<"Design Patterns", "Gang of Four">>},
     B003 |-> {<<"The Pragmatic Programmer", "Hunt & Thomas">>}]

\* the names passed to registerMember
Names == {"Alice"}

\* nullptr
NULL == [null |-> TRUE]

(* ------------------- main.cpp and absolute_test.cpp ------------------- *)

\* the range of int
INT_MAX == 2147483647

INT_MIN == -INT_MAX - 1

\* add is tried on every pair of operands in -MaxOperand .. MaxOperand
MaxOperand == 8

\* absolute is tried on -MaxMagnitude .. MaxMagnitude and on the ends of int
MaxMagnitude == 60

AddOperands == (-MaxOperand..MaxOperand) \X (-MaxOperand..MaxOperand)

AbsoluteInputs ==
    (-MaxMagnitude..MaxMagnitude) \cup {INT_MIN, INT_MIN + 1, INT_MAX - 1, INT_MAX}

\* the outcome of a call: not made yet, returned a value, or did not return
NotCalled == [called |-> FALSE]

Returned(value) == [called |-> TRUE, returned |-> TRUE, value |-> value]

Trapped == [called |-> TRUE, returned |-> FALSE]

\* int add(int a, int b): the product of its operands, which for the operands
\* tried here is far from the ends of int
add(a, b) == a * b

\* -n in int arithmetic. INT_MIN has no negation in int: the overflow is
\* undefined behaviour, and a build either wraps around to INT_MIN or traps
Negate(n) ==
    IF n = INT_MIN
    THEN {Returned(INT_MIN), Trapped}
    ELSE {Returned(-n)}

\* int absolute(int n): the outcomes of absolute(n)
absolute(n) ==
    IF n < 0
    THEN Negate(n)
    ELSE {Returned(n)}

(* --------------------------- double_fake.cpp -------------------------- *)

\* the prices passed to addItem: whole amounts, which double adds exactly
Prices == {-50, 0, 20, 50}

\* addItem is taken while the total stays within -MaxTotal .. MaxTotal
MaxTotal == 150

\* processPayment is invoked at most MaxPayments times
MaxPayments == 2

\* FakePaymentProcessor::processPayment: the value of shouldSucceed, which
\* is indeterminate until setShouldSucceed has written it
processPayment(amount) ==
    IF shouldSucceed = "indeterminate"
    THEN {"true", "false"}
    ELSE {shouldSucceed}

(* ---------------------------- Book ------------------------------------ *)

\* mutant: title and author are stored in each other's field
Book_SwappedFields(id, title, author) ==
    [id |-> id, title |-> author, author |-> title, available |-> TRUE]

Book(id, title, author) ==
    [id |-> id, title |-> title, author |-> author, available |-> TRUE]

getTitle(book) == book.title

getAuthor(book) == book.author

isAvailable(book) == book.available

\* mutant: the flag is left as it was
markBorrowed_NoOp(book) == book

markBorrowed(book) == [book EXCEPT !.available = FALSE]

markReturned(book) == [book EXCEPT !.available = TRUE]

(* ---------------------------- Member ---------------------------------- *)

DefaultMaxBooks == 3

\* mutant: the default limit is not 3
Member_WrongLimit(id, name) ==
    [id |-> id, name |-> name, borrowedBookIds |-> <<>>, maxBooks |-> 2]

Member(id, name) ==
    [id |-> id, name |-> name, borrowedBookIds |-> <<>>,
     maxBooks |-> DefaultMaxBooks]

getBorrowedCount(member) == Len(member.borrowedBookIds)

getMaxBooks(member) == member.maxBooks

canBorrow(member) == Len(member.borrowedBookIds) < member.maxBooks

addBorrowedBook(member, bookId) ==
    [member EXCEPT !.borrowedBookIds = Append(@, bookId)]

hasBorrowedBook(member, bookId) ==
    \E i \in 1..Len(member.borrowedBookIds) : member.borrowedBookIds[i] = bookId

\* index of the first element equal to bookId (the element the loop erases)
FirstIndex(seq, bookId) ==
    CHOOSE i \in 1..Len(seq) :
        /\ seq[i] = bookId
        /\ \A j \in 1..(i - 1) : seq[j] # bookId

EraseAt(seq, i) == SubSeq(seq, 1, i - 1) \o SubSeq(seq, i + 1, Len(seq))

removeBorrowedBook(member, bookId) ==
    IF \E i \in 1..Len(member.borrowedBookIds) : member.borrowedBookIds[i] = bookId
    THEN [member EXCEPT !.borrowedBookIds = EraseAt(@, FirstIndex(@, bookId))]
    ELSE member

(* ---------------------------- notifier -------------------------------- *)

\* mutant: the notification is not recorded
sendNotification_Dropped(log, memberId, message) == log

sendNotification(log, memberId, message) == Append(log, <<memberId, message>>)

getNotificationCount == Len(sentNotifications)

BorrowedMessage(book) == "You have borrowed: " \o getTitle(book)

ReturnedMessage(book) == "You have returned: " \o getTitle(book)

(* ---------------------------- Library --------------------------------- *)

findBook(id) == books[id]

findMember(id) == members[id]

\* the loop over the map entries not yet visited, with the running count
RECURSIVE CountAvailable(_, _)
CountAvailable(ids, count) ==
    IF ids = {}
    THEN count
    ELSE LET id == CHOOSE x \in ids : TRUE
         IN CountAvailable(ids \ {id},
                           IF isAvailable(books[id]) THEN count + 1 ELSE count)

\* mutant: every entry is counted
getAvailableBookCount_CountsAll ==
    Cardinality({id \in BookIds : books[id] # NULL})

getAvailableBookCount ==
    CountAvailable({id \in BookIds : books[id] # NULL}, 0)

\* the operation called last and the value it returned
Call(op, ret) == [op |-> op, ret |-> ret]

\* what a caller of findBook / findMember sees of the returned pointer
PointerResult(ptr) == IF ptr = NULL THEN "nullptr" ELSE "found"

\* the last call did not reach the notifier
NoNotification == [sent |-> FALSE]

\* the last call was not a successful borrowBook
NoSnapshot == [taken |-> FALSE]

\* mutant: the notifier is called before the member is updated
AtBorrowNotification_BeforeMemberUpdate(memberId, bookId) ==
    [sent |-> TRUE,
     book |-> markBorrowed(findBook(bookId)),
     member |-> findMember(memberId)]

\* the Book and the Member as they are when borrowBook calls
\* sendNotification: markBorrowed and addBorrowedBook have run before it
AtBorrowNotification(memberId, bookId) ==
    [sent |-> TRUE,
     book |-> markBorrowed(findBook(bookId)),
     member |-> addBorrowedBook(findMember(memberId), bookId)]

\* the Book and the Member as they are when returnBook calls
\* sendNotification: markReturned and removeBorrowedBook have run before it
AtReturnNotification(memberId, bookId) ==
    [sent |-> TRUE,
     book |-> markReturned(findBook(bookId)),
     member |-> removeBorrowedBook(findMember(memberId), bookId)]

\* the Library and the log as a successful borrowBook found them
Snapshot(memberId, bookId) ==
    [taken |-> TRUE, memberId |-> memberId, bookId |-> bookId,
     books |-> books, members |-> members,
     sentNotifications |-> sentNotifications]

\* Library library(&fakeNotifier): empty catalog, no member, empty log
LibraryInit ==
    /\ books = [id \in BookIds |-> NULL]
    /\ members = [id \in MemberIds |-> NULL]
    /\ sentNotifications = <<>>
    /\ lastCall = Call("Library", "void")
    /\ successCalls = <<>>
    /\ replacements = 0
    /\ notified = NoNotification
    /\ beforeBorrow = NoSnapshot

\* no free function has been called
NoFunctionCall ==
    /\ operands = <<>>
    /\ result = NotCalled

\* ShoppingCart cart(&fakeprocessor): total(0), shouldSucceed never written
CartInit ==
    /\ total = 0
    /\ shouldSucceed = "indeterminate"
    /\ payments = 0
    /\ checkoutResult = "none"

Init == LibraryInit /\ NoFunctionCall /\ CartInit

\* mutant: an id already in the catalog keeps its Book
addBook_KeepsExisting(id, title, author) ==
    /\ books' = IF books[id] # NULL
                THEN books
                ELSE [books EXCEPT ![id] = Book(id, title, author)]
    /\ lastCall' = Call("addBook", "void")
    /\ IF books[id] # NULL
       THEN replacements < MaxReplacements /\ replacements' = replacements + 1
       ELSE replacements' = replacements
    /\ UNCHANGED <<members, sentNotifications, successCalls>>
    /\ notified' = NoNotification
    /\ beforeBorrow' = NoSnapshot
    /\ UNCHANGED <<functionVars, cartVars>>

addBook(id, title, author) ==
    /\ books' = [books EXCEPT ![id] = Book(id, title, author)]
    /\ lastCall' = Call("addBook", "void")
    /\ IF books[id] # NULL
       THEN replacements < MaxReplacements /\ replacements' = replacements + 1
       ELSE replacements' = replacements
    /\ UNCHANGED <<members, sentNotifications, successCalls>>
    /\ notified' = NoNotification
    /\ beforeBorrow' = NoSnapshot
    /\ UNCHANGED <<functionVars, cartVars>>

\* mutant: an id already registered keeps its Member
registerMember_KeepsExisting(id, name) ==
    /\ members' = IF members[id] # NULL
                  THEN members
                  ELSE [members EXCEPT ![id] = Member(id, name)]
    /\ lastCall' = Call("registerMember", "void")
    /\ IF members[id] # NULL
       THEN replacements < MaxReplacements /\ replacements' = replacements + 1
       ELSE replacements' = replacements
    /\ UNCHANGED <<books, sentNotifications, successCalls>>
    /\ notified' = NoNotification
    /\ beforeBorrow' = NoSnapshot
    /\ UNCHANGED <<functionVars, cartVars>>

registerMember(id, name) ==
    /\ members' = [members EXCEPT ![id] = Member(id, name)]
    /\ lastCall' = Call("registerMember", "void")
    /\ IF members[id] # NULL
       THEN replacements < MaxReplacements /\ replacements' = replacements + 1
       ELSE replacements' = replacements
    /\ UNCHANGED <<books, sentNotifications, successCalls>>
    /\ notified' = NoNotification
    /\ beforeBorrow' = NoSnapshot
    /\ UNCHANGED <<functionVars, cartVars>>

FindBook(id) ==
    /\ lastCall' = Call("findBook", PointerResult(findBook(id)))
    /\ UNCHANGED <<books, members, sentNotifications, successCalls, replacements>>
    /\ notified' = NoNotification
    /\ beforeBorrow' = NoSnapshot
    /\ UNCHANGED <<functionVars, cartVars>>

FindMember(id) ==
    /\ lastCall' = Call("findMember", PointerResult(findMember(id)))
    /\ UNCHANGED <<books, members, sentNotifications, successCalls, replacements>>
    /\ notified' = NoNotification
    /\ beforeBorrow' = NoSnapshot
    /\ UNCHANGED <<functionVars, cartVars>>

GetAvailableBookCount ==
    /\ lastCall' = Call("getAvailableBookCount", ToString(getAvailableBookCount))
    /\ UNCHANGED <<books, members, sentNotifications, successCalls, replacements>>
    /\ notified' = NoNotification
    /\ beforeBorrow' = NoSnapshot
    /\ UNCHANGED <<functionVars, cartVars>>

\* mutant: the availability check is missing
borrowBookValid_NoAvailabilityCheck(memberId, bookId) ==
    /\ findMember(memberId) # NULL
    /\ findBook(bookId) # NULL
    /\ canBorrow(findMember(memberId))

borrowBookValid(memberId, bookId) ==
    /\ findMember(memberId) # NULL
    /\ findBook(bookId) # NULL
    /\ isAvailable(findBook(bookId))
    /\ canBorrow(findMember(memberId))

borrowBook(memberId, bookId) ==
    IF borrowBookValid(memberId, bookId)
    THEN /\ Len(sentNotifications) < MaxNotifications
         /\ books' = [books EXCEPT ![bookId] = markBorrowed(@)]
         /\ members' = [members EXCEPT ![memberId] = addBorrowedBook(@, bookId)]
         /\ sentNotifications' =
                sendNotification(sentNotifications, memberId,
                                 BorrowedMessage(findBook(bookId)))
         /\ notified' = AtBorrowNotification(memberId, bookId)
         /\ lastCall' = Call("borrowBook", "true")
         /\ successCalls' = Append(successCalls, <<"borrowBook", memberId, bookId>>)
         /\ beforeBorrow' = Snapshot(memberId, bookId)
         /\ UNCHANGED <<replacements, functionVars, cartVars>>
    ELSE /\ lastCall' = Call("borrowBook", "false")
         /\ notified' = NoNotification
         /\ beforeBorrow' = NoSnapshot
         /\ UNCHANGED <<books, members, sentNotifications, successCalls, replacements>>
         /\ UNCHANGED <<functionVars, cartVars>>

\* mutant: the check that the member holds the book is missing
returnBookValid_NoBorrowedCheck(memberId, bookId) ==
    /\ findMember(memberId) # NULL
    /\ findBook(bookId) # NULL

returnBookValid(memberId, bookId) ==
    /\ findMember(memberId) # NULL
    /\ findBook(bookId) # NULL
    /\ hasBorrowedBook(findMember(memberId), bookId)

\* mutant: the id is removed from every member that holds it
returnBook_ReleasesAllHolders(memberId, bookId) ==
    IF returnBookValid(memberId, bookId)
    THEN /\ Len(sentNotifications) < MaxNotifications
         /\ books' = [books EXCEPT ![bookId] = markReturned(@)]
         /\ members' = [m \in MemberIds |->
                           IF members[m] = NULL
                           THEN NULL
                           ELSE removeBorrowedBook(members[m], bookId)]
         /\ sentNotifications' =
                sendNotification(sentNotifications, memberId,
                                 ReturnedMessage(findBook(bookId)))
         /\ notified' = AtReturnNotification(memberId, bookId)
         /\ lastCall' = Call("returnBook", "true")
         /\ successCalls' = Append(successCalls, <<"returnBook", memberId, bookId>>)
         /\ beforeBorrow' = NoSnapshot
         /\ UNCHANGED <<replacements, functionVars, cartVars>>
    ELSE /\ lastCall' = Call("returnBook", "false")
         /\ notified' = NoNotification
         /\ beforeBorrow' = NoSnapshot
         /\ UNCHANGED <<books, members, sentNotifications, successCalls, replacements>>
         /\ UNCHANGED <<functionVars, cartVars>>

returnBook(memberId, bookId) ==
    IF returnBookValid(memberId, bookId)
    THEN /\ Len(sentNotifications) < MaxNotifications
         /\ books' = [books EXCEPT ![bookId] = markReturned(@)]
         /\ members' = [members EXCEPT ![memberId] = removeBorrowedBook(@, bookId)]
         /\ sentNotifications' =
                sendNotification(sentNotifications, memberId,
                                 ReturnedMessage(findBook(bookId)))
         /\ notified' = AtReturnNotification(memberId, bookId)
         /\ lastCall' = Call("returnBook", "true")
         /\ successCalls' = Append(successCalls, <<"returnBook", memberId, bookId>>)
         /\ beforeBorrow' = NoSnapshot
         /\ UNCHANGED <<replacements, functionVars, cartVars>>
    ELSE /\ lastCall' = Call("returnBook", "false")
         /\ notified' = NoNotification
         /\ beforeBorrow' = NoSnapshot
         /\ UNCHANGED <<books, members, sentNotifications, successCalls, replacements>>
         /\ UNCHANGED <<functionVars, cartVars>>

AddBook == \E id \in BookIds : \E e \in Editions[id] : addBook(id, e[1], e[2])

RegisterMember == \E id \in MemberIds, name \in Names : registerMember(id, name)

BorrowBook == \E m \in MemberIds, b \in BookIds : borrowBook(m, b)

ReturnBook == \E m \in MemberIds, b \in BookIds : returnBook(m, b)

FindBookCall == \E id \in BookIds : FindBook(id)

FindMemberCall == \E id \in MemberIds : FindMember(id)

\* the operations that change the Library
Next ==
    \/ AddBook
    \/ RegisterMember
    \/ BorrowBook
    \/ ReturnBook

Spec == Init /\ [][Next]_vars

\* the same with the read-only queries interleaved
NextQueries ==
    \/ Next
    \/ FindBookCall
    \/ FindMemberCall
    \/ GetAvailableBookCount

SpecQueries == Init /\ [][NextQueries]_vars

\* the Library with calls of getAvailableBookCount interleaved
NextCount ==
    \/ Next
    \/ GetAvailableBookCount

SpecCount == Init /\ [][NextCount]_vars

\* the Library with calls of findBook and findMember interleaved
NextLookup ==
    \/ Next
    \/ FindBookCall
    \/ FindMemberCall

SpecLookup == Init /\ [][NextLookup]_vars

\* FakeNotificationService::clear, as the tests call it between Library
\* calls; successCalls restarts with the log it is compared to
Clear ==
    /\ sentNotifications # <<>>
    /\ sentNotifications' = <<>>
    /\ successCalls' = <<>>
    /\ lastCall' = Call("clear", "void")
    /\ notified' = NoNotification
    /\ beforeBorrow' = NoSnapshot
    /\ UNCHANGED <<books, members, replacements, functionVars, cartVars>>

\* the Library with a test that clears the fake's log now and then
NextClear ==
    \/ Next
    \/ Clear

SpecClear == Init /\ [][NextClear]_vars

\* int result = add(a, b)
Add ==
    /\ result = NotCalled
    /\ result' = Returned(add(operands[1], operands[2]))
    /\ UNCHANGED <<operands, libraryVars, cartVars>>

InitAdd ==
    /\ LibraryInit
    /\ CartInit
    /\ operands \in AddOperands
    /\ result = NotCalled

SpecAdd == InitAdd /\ [][Add]_vars

\* int result = absolute(n)
Absolute ==
    /\ result = NotCalled
    /\ result' \in absolute(operands[1])
    /\ UNCHANGED <<operands, libraryVars, cartVars>>

InitAbsolute ==
    /\ LibraryInit
    /\ CartInit
    /\ operands \in {<<n>> : n \in AbsoluteInputs}
    /\ result = NotCalled

SpecAbsolute == InitAbsolute /\ [][Absolute]_vars

\* FakePaymentProcessor::setShouldSucceed
setShouldSucceed(value) ==
    /\ shouldSucceed' = value
    /\ checkoutResult' = "none"
    /\ UNCHANGED <<total, payments, libraryVars, functionVars>>

\* ShoppingCart::addItem
addItem(price) ==
    /\ total + price \in -MaxTotal..MaxTotal
    /\ total' = total + price
    /\ checkoutResult' = "none"
    /\ UNCHANGED <<shouldSucceed, payments, libraryVars, functionVars>>

\* mutant: a total of zero is sent to the processor
checkout_ChargesZeroTotal ==
    /\ IF total < 0
       THEN /\ checkoutResult' = "false"
            /\ payments' = payments
       ELSE /\ payments < MaxPayments
            /\ checkoutResult' \in processPayment(total)
            /\ payments' = payments + 1
    /\ UNCHANGED <<total, shouldSucceed, libraryVars, functionVars>>

\* ShoppingCart::checkout; payments counts the calls of processPayment
checkout ==
    /\ IF total <= 0
       THEN /\ checkoutResult' = "false"
            /\ payments' = payments
       ELSE /\ payments < MaxPayments
            /\ checkoutResult' \in processPayment(total)
            /\ payments' = payments + 1
    /\ UNCHANGED <<total, shouldSucceed, libraryVars, functionVars>>

SetShouldSucceed == \E value \in {"true", "false"} : setShouldSucceed(value)

AddItem == \E price \in Prices : addItem(price)

NextCart ==
    \/ SetShouldSucceed
    \/ AddItem
    \/ checkout

SpecCart == Init /\ [][NextCart]_vars

(* ---------------------------- properties ------------------------------ *)

Occurs(seq, x) == \E i \in 1..Len(seq) : seq[i] = x

Registered(m) == members[m] # NULL

InCatalog(b) == books[b] # NULL

BorrowedOf(m) == members[m].borrowedBookIds

\* the registered members whose borrowed sequence contains b
Holders(b) == {m \in MemberIds : Registered(m) /\ Occurs(BorrowedOf(m), b)}

\* the step is the call borrowBook(m, b) and the call returns ret
BorrowReturns(m, b, ret) == lastCall' = Call("borrowBook", ret) /\ borrowBook(m, b)

\* the step is the call returnBook(m, b) and the call returns ret
ReturnReturns(m, b, ret) == lastCall' = Call("returnBook", ret) /\ returnBook(m, b)

\* the step is the call borrowBook(m, b)
IsBorrowCall(m, b) == lastCall'.op = "borrowBook" /\ borrowBook(m, b)

\* the step is the call returnBook(m, b)
IsReturnCall(m, b) == lastCall'.op = "returnBook" /\ returnBook(m, b)

\* C1: in every reachable state every unavailable Book has its id in the
\* borrowed sequence of exactly one Member, and every id in a Member's
\* borrowed sequence belongs to an unavailable Book.
C1_BorrowedAvailableBijection ==
    /\ \A b \in BookIds :
          (InCatalog(b) /\ ~books[b].available) => Cardinality(Holders(b)) = 1
    /\ \A m \in MemberIds :
          Registered(m) =>
              \A i \in 1..Len(BorrowedOf(m)) :
                  /\ InCatalog(BorrowedOf(m)[i])
                  /\ ~books[BorrowedOf(m)[i]].available

\* C2: a book id starts Available when first added, goes from Available to
\* Borrowed only in a successful borrowBook on that id, from Borrowed to
\* Available only in a successful returnBook on that id, and no other
\* operation changes its availability.
C2_AvailabilityTransitions ==
    [][\A b \in BookIds :
          /\ (~InCatalog(b) /\ books'[b] # NULL) => books'[b].available
          /\ (InCatalog(b) /\ books'[b] # NULL /\ books[b].available
                /\ ~books'[b].available)
                => \E m \in MemberIds : BorrowReturns(m, b, "true")
          /\ (InCatalog(b) /\ books'[b] # NULL /\ ~books[b].available
                /\ books'[b].available)
                => \E m \in MemberIds : ReturnReturns(m, b, "true")]_vars

C4_BorrowedIdsUnique ==
    \A m \in MemberIds :
        Registered(m) =>
            \A i, j \in 1..Len(BorrowedOf(m)) :
                i # j => BorrowedOf(m)[i] # BorrowedOf(m)[j]

\* C5: a borrowBook(m, b) that returns true leaves book b unavailable and in
\* m's borrowed sequence, makes m's borrowed count one larger, and appends
\* exactly one notification <<m, "You have borrowed: " + title of b>>.
C5_SuccessfulBorrow ==
    [][\A m \in MemberIds, b \in BookIds :
          BorrowReturns(m, b, "true") =>
              /\ books'[b] # NULL /\ ~books'[b].available
              /\ Occurs(members'[m].borrowedBookIds, b)
              /\ Len(members'[m].borrowedBookIds) = Len(BorrowedOf(m)) + 1
              /\ sentNotifications' =
                     Append(sentNotifications,
                            <<m, "You have borrowed: " \o books[b].title>>)]_vars

\* a borrowBook has just returned true for a member that already held a book
C5_Witness ==
    /\ lastCall = Call("borrowBook", "true")
    /\ \E m \in MemberIds : Registered(m) /\ Len(BorrowedOf(m)) >= 2

\* C6: a returnBook(m, b) that returns true leaves book b available and no
\* longer in m's borrowed sequence, makes m's borrowed count one smaller, and
\* appends exactly one notification <<m, "You have returned: " + title of b>>.
C6_SuccessfulReturn ==
    [][\A m \in MemberIds, b \in BookIds :
          ReturnReturns(m, b, "true") =>
              /\ books'[b] # NULL /\ books'[b].available
              /\ ~Occurs(members'[m].borrowedBookIds, b)
              /\ Len(members'[m].borrowedBookIds) = Len(BorrowedOf(m)) - 1
              /\ sentNotifications' =
                     Append(sentNotifications,
                            <<m, "You have returned: " \o books[b].title>>)]_vars

\* C7: borrowBook(m, b) returns false and changes no Book, no Member and no
\* notification when m is not registered, b is not in the catalog, b is
\* unavailable, or m is at capacity.
C7_RejectedBorrow ==
    [][\A m \in MemberIds, b \in BookIds :
          (/\ IsBorrowCall(m, b)
           /\ \/ ~Registered(m)
              \/ ~InCatalog(b)
              \/ ~books[b].available
              \/ Len(BorrowedOf(m)) >= members[m].maxBooks)
          => /\ lastCall'.ret = "false"
             /\ UNCHANGED <<books, members, sentNotifications>>]_vars

\* a borrowBook has just been refused while a member, itself below capacity,
\* holds an unavailable book, and while some id is not registered or not in
\* the catalog
C7_Witness ==
    /\ lastCall = Call("borrowBook", "false")
    /\ \E m \in MemberIds, b \in BookIds :
          /\ Registered(m) /\ InCatalog(b) /\ ~books[b].available
          /\ Occurs(BorrowedOf(m), b) /\ Len(BorrowedOf(m)) < 3
    /\ \E m \in MemberIds : ~Registered(m)
    /\ \E b \in BookIds : ~InCatalog(b)

\* C8: returnBook(m, b) returns false and changes no Book, no Member and no
\* notification when m is not registered, b is not in the catalog, or m's
\* borrowed sequence does not contain b (so a return by a member other than
\* the borrower leaves b unavailable and held by its borrower).
C8_RejectedReturn ==
    [][\A m \in MemberIds, b \in BookIds :
          (/\ IsReturnCall(m, b)
           /\ \/ ~Registered(m)
              \/ ~InCatalog(b)
              \/ ~Occurs(BorrowedOf(m), b))
          => /\ lastCall'.ret = "false"
             /\ UNCHANGED <<books, members, sentNotifications>>]_vars

\* a returnBook has just been refused while one registered member holds an
\* unavailable book that another registered member does not hold
C8_Witness ==
    /\ lastCall = Call("returnBook", "false")
    /\ \E m1, m2 \in MemberIds, b \in BookIds :
          /\ m1 # m2 /\ Registered(m1) /\ Registered(m2)
          /\ InCatalog(b) /\ ~books[b].available
          /\ Occurs(BorrowedOf(m1), b) /\ ~Occurs(BorrowedOf(m2), b)

\* C9: while a Member's borrowed count equals maxBooks every borrowBook by
\* that member is rejected with no state change and no notification, for any
\* book id, and the member gets below capacity again only by a successful
\* returnBook.
C9_CapacityReleasedOnlyByReturn ==
    [][\A m \in MemberIds :
          (Registered(m) /\ Len(BorrowedOf(m)) = members[m].maxBooks) =>
              /\ \A b \in BookIds :
                    IsBorrowCall(m, b) =>
                        /\ lastCall'.ret = "false"
                        /\ UNCHANGED <<books, members, sentNotifications>>
              /\ (members'[m] # NULL
                    /\ Len(members'[m].borrowedBookIds) < members'[m].maxBooks)
                    => \E b \in BookIds : ReturnReturns(m, b, "true")]_vars

\* C10: the notifications recorded so far are exactly the borrowBook and
\* returnBook calls that returned true, one each, in call order, each
\* addressed to the call's memberId.
C10_OneNotificationPerSuccess ==
    /\ Len(sentNotifications) = Len(successCalls)
    /\ \A i \in 1..Len(successCalls) :
          /\ i <= Len(sentNotifications)
          /\ sentNotifications[i][1] = successCalls[i][2]

\* a call has just returned false after both a borrowBook and a returnBook
\* returned true
C10_Witness ==
    /\ lastCall.ret = "false"
    /\ \E i, j \in 1..Len(successCalls) :
          successCalls[i][1] = "borrowBook" /\ successCalls[j][1] = "returnBook"

\* the step is the call addBook(id, title, author)
IsAddBookCall(id, title, author) ==
    lastCall'.op = "addBook" /\ addBook(id, title, author)

\* the step is the call registerMember(id, name)
IsRegisterCall(id, name) ==
    lastCall'.op = "registerMember" /\ registerMember(id, name)

AvailableIds == {b \in BookIds : InCatalog(b) /\ books[b].available}

\* C11: getAvailableBookCount() is the number of catalog entries whose Book is
\* available, in every state and as the value the call returns, and addBook
\* with an id not in the catalog makes it exactly one larger.
C11_AvailableBookCount ==
    [][/\ getAvailableBookCount = Cardinality(AvailableIds)
       /\ (lastCall'.op = "getAvailableBookCount" /\ GetAvailableBookCount)
             => lastCall'.ret = ToString(Cardinality(AvailableIds))
       /\ \A id \in BookIds : \A e \in Editions[id] :
             (IsAddBookCall(id, e[1], e[2]) /\ ~InCatalog(id))
             => /\ getAvailableBookCount' = getAvailableBookCount + 1
                /\ Cardinality(AvailableIds') = Cardinality(AvailableIds) + 1]_vars

\* getAvailableBookCount has just returned 1 with two books in the catalog
C11_Witness ==
    /\ lastCall = Call("getAvailableBookCount", "1")
    /\ Cardinality({b \in BookIds : InCatalog(b)}) = 2

\* C12: findBook / findMember return nullptr exactly for the ids never passed
\* to addBook / registerMember: every id is absent at first, becomes present
\* only by addBook / registerMember on it, and is never absent again; the Book
\* found carries the title and author of the most recent addBook for its id.
C12_LookupFollowsAdditions ==
    [][/\ lastCall.op = "Library"
             => /\ \A b \in BookIds : ~InCatalog(b)
                /\ \A m \in MemberIds : ~Registered(m)
       /\ lastCall'.op = "findBook"
             => \A b \in BookIds :
                   FindBook(b) => (lastCall'.ret = "nullptr" <=> ~InCatalog(b))
       /\ lastCall'.op = "findMember"
             => \A m \in MemberIds :
                   FindMember(m) => (lastCall'.ret = "nullptr" <=> ~Registered(m))
       /\ (books' # books \/ lastCall'.op = "addBook")
             => \A b \in BookIds :
                   /\ InCatalog(b) => books'[b] # NULL
                   /\ \A e \in Editions[b] :
                         IsAddBookCall(b, e[1], e[2])
                         => /\ books'[b] # NULL
                            /\ books'[b].title = e[1]
                            /\ books'[b].author = e[2]
                   /\ (books'[b] # NULL
                         /\ (~InCatalog(b)
                               \/ books'[b].title # books[b].title
                               \/ books'[b].author # books[b].author))
                         => \E e \in Editions[b] : IsAddBookCall(b, e[1], e[2])
       /\ (members' # members \/ lastCall'.op = "registerMember")
             => \A m \in MemberIds :
                   /\ Registered(m) => members'[m] # NULL
                   /\ \A n \in Names : IsRegisterCall(m, n) => members'[m] # NULL
                   /\ (~Registered(m) /\ members'[m] # NULL)
                         => \E n \in Names : IsRegisterCall(m, n)]_vars

\* findBook has just found a book while another id is still absent, and the
\* first id carries its second title
C12_Witness ==
    /\ lastCall = Call("findBook", "found")
    /\ InCatalog("B001") /\ books["B001"].title = "New Book"
    /\ \E b \in BookIds : ~InCatalog(b)

\* C16: addBook on an id already in the catalog, borrowed or not, replaces the
\* entry by an available Book with the new title and author and leaves every
\* Member, every other Book and the notification log unchanged.
C16_AddBookReplaces ==
    [][\A id \in BookIds : \A e \in Editions[id] :
          (IsAddBookCall(id, e[1], e[2]) /\ InCatalog(id))
          => /\ books'[id] = [id |-> id, title |-> e[1], author |-> e[2],
                              available |-> TRUE]
             /\ \A other \in BookIds \ {id} : books'[other] = books[other]
             /\ members' = members
             /\ sentNotifications' = sentNotifications]_vars

\* addBook has just replaced the first book, which a member still holds
C16_Witness ==
    /\ lastCall = Call("addBook", "void")
    /\ replacements >= 1
    /\ InCatalog("B001") /\ books["B001"].available
    /\ \E m \in MemberIds : Registered(m) /\ Occurs(BorrowedOf(m), "B001")

\* C17: registerMember(id, name) always leaves under id a Member with limit 3
\* and an empty borrowed sequence, also when id is already registered and
\* holds books, and leaves every Book, every other Member and the
\* notification log unchanged.
C17_RegisterMemberReplaces ==
    [][\A id \in MemberIds : \A n \in Names :
          IsRegisterCall(id, n)
          => /\ members'[id] = [id |-> id, name |-> n,
                                borrowedBookIds |-> <<>>, maxBooks |-> 3]
             /\ \A other \in MemberIds \ {id} : members'[other] = members[other]
             /\ books' = books
             /\ sentNotifications' = sentNotifications]_vars

\* registerMember has just replaced a member that held a book: the book is
\* unavailable and no member holds it
C17_Witness ==
    /\ lastCall = Call("registerMember", "void")
    /\ replacements >= 1
    /\ \E b \in BookIds :
          InCatalog(b) /\ ~books[b].available /\ Holders(b) = {}

\* C20: a borrowBook(m, b) or returnBook(m, b) that returns true changes only
\* the availability of book b and the borrowed sequence of member m: every
\* other Book, every other Member, the catalog ids and the registered ids are
\* unchanged.
C20_SuccessFrame ==
    [][\A m \in MemberIds, b \in BookIds :
          (BorrowReturns(m, b, "true") \/ ReturnReturns(m, b, "true"))
          => /\ \A x \in BookIds \ {b} : books'[x] = books[x]
             /\ \A y \in MemberIds \ {m} : members'[y] = members[y]
             /\ {x \in BookIds : books'[x] # NULL} = {x \in BookIds : InCatalog(x)}
             /\ {y \in MemberIds : members'[y] # NULL}
                   = {y \in MemberIds : Registered(y)}
             /\ [books'[b] EXCEPT !.available = books[b].available] = books[b]
             /\ [members'[m] EXCEPT !.borrowedBookIds = BorrowedOf(m)]
                   = members[m]]_vars

\* a call has just returned true while both members hold a book and a second
\* book is in the catalog
C20_Witness ==
    /\ lastCall.ret = "true"
    /\ \A m \in MemberIds : Registered(m) /\ Len(BorrowedOf(m)) >= 1
    /\ Cardinality({b \in BookIds : InCatalog(b)}) >= 2

\* C13: add(a, b) returns the sum a + b for all integers a and b; the test
\* expects add(2, 3) to be 5
C13_AddReturnsSum ==
    result # NotCalled => result = Returned(operands[1] + operands[2])

\* C14: checkout returns false whenever total <= 0, whatever the processor
\* was told, and then does not invoke the processor; when total > 0 it
\* returns the value most recently given to setShouldSucceed; checkout never
\* changes the total
C14_Checkout ==
    [][(checkoutResult' # "none" /\ checkout)
          => /\ total' = total
             /\ total <= 0 => (checkoutResult' = "false" /\ payments' = payments)
             /\ (total > 0 /\ shouldSucceed # "indeterminate")
                   => checkoutResult' = shouldSucceed]_vars

\* checkout has just refused a cart whose total is zero although the
\* processor was told to succeed, and the processor was never invoked
C14_Witness ==
    /\ checkoutResult = "false"
    /\ total = 0
    /\ shouldSucceed = "true"
    /\ payments = 0

\* C15: the notifier is reached only by a successful borrowBook or
\* returnBook, and what it finds is the state the call leaves: after
\* borrowBook(m, b) the book is unavailable and b has been appended to m's
\* borrowed sequence, after returnBook(m, b) the book is available and one
\* occurrence of b has been removed
C15_NotifiedAfterBothMutations ==
    [][/\ notified'.sent <=> (lastCall'.ret = "true"
                                /\ lastCall'.op \in {"borrowBook", "returnBook"})
       /\ \A m \in MemberIds, b \in BookIds :
             /\ BorrowReturns(m, b, "true")
                   => /\ notified'.sent
                      /\ ~isAvailable(notified'.book)
                      /\ notified'.member.borrowedBookIds = Append(BorrowedOf(m), b)
                      /\ notified'.book = books'[b]
                      /\ notified'.member = members'[m]
             /\ ReturnReturns(m, b, "true")
                   => /\ notified'.sent
                      /\ isAvailable(notified'.book)
                      /\ notified'.member.borrowedBookIds =
                            EraseAt(BorrowedOf(m), FirstIndex(BorrowedOf(m), b))
                      /\ notified'.book = books'[b]
                      /\ notified'.member = members'[m]]_vars

\* the notifier has just been reached by a returnBook that left the member
\* with another book still borrowed
C15_Witness ==
    /\ lastCall = Call("returnBook", "true")
    /\ notified.sent
    /\ isAvailable(notified.book)
    /\ Len(notified.member.borrowedBookIds) = 1

\* C18: absolute(n) returns the magnitude of n for every int n, the minimum
\* value included, and the result is never negative
C18_AbsoluteNonNegative ==
    result # NotCalled
        => /\ result.returned
           /\ result.value >= 0
           /\ operands[1] >= 0 => result.value = operands[1]
           /\ operands[1] < 0 => result.value + operands[1] = 0

\* C19: a successful borrowBook(m, b) immediately followed by
\* returnBook(m, b) is a round trip: the returnBook succeeds, every Book and
\* every Member's borrowed sequence are as before the borrowBook, and the log
\* has grown by the borrowed and then the returned entry
C19_BorrowReturnRoundTrip ==
    [][\A m \in MemberIds, b \in BookIds :
          (/\ beforeBorrow.taken
           /\ beforeBorrow.memberId = m
           /\ beforeBorrow.bookId = b
           /\ IsReturnCall(m, b))
             => /\ lastCall'.ret = "true"
                /\ books' = beforeBorrow.books
                /\ members' = beforeBorrow.members
                /\ sentNotifications' =
                      beforeBorrow.sentNotifications
                         \o << <<m, BorrowedMessage(books[b])>>,
                               <<m, ReturnedMessage(books[b])>> >>]_vars

====
